---- MODULE Spec2Model ----
(***************************************************************************)
(* pontospell: string-edit alignment of two sequences.                     *)
(*   chart.py   tabular engine: PairAnalysis, compute_min_edit_distance,   *)
(*              min_edit_distance, get_one_backtrace                       *)
(*   xducer.py  memoized recursive engine: arguments, relate, parse,       *)
(*              try_op, remove_suboptimal_parses                           *)
(*   levenshtein.py  class engine: Levenshtein.set_pair,                   *)
(*              _compute_min_edit_distance, min_edit_distance              *)
(* Costs are modelled as integers (exact arithmetic).                      *)
(***************************************************************************)
EXTENDS Integers, Sequences, FiniteSets, TLC

VARIABLES matrix, calls, xd, lev

vars == <<matrix, calls, xd, lev>>

----------------------------------------------------------------------------
(* Bounds of the model *)

MaxLen == 3

MaxSessionLen == 2

MaxCalls == 2

----------------------------------------------------------------------------
(* Elements, sequences and cost models given to the engines *)

Alphabet == {"a", "b"}

None == "None"

SeqsUpTo(n) == UNION {[1..k -> Alphabet] : k \in 0..n}

Seqs == SeqsUpTo(MaxLen)

SessionSeqs == SeqsUpTo(MaxSessionLen)

lev_ins_function(targ_element) == 1

lev_del_function(src_element) == 1

lev_sub_function(src_element, targ_element) ==
    IF src_element = targ_element THEN 0 ELSE 2

LevCosts ==
    [ins |-> [e \in Alphabet |-> lev_ins_function(e)],
     del |-> [e \in Alphabet |-> lev_del_function(e)],
     sub |-> [p \in Alphabet \X Alphabet |-> lev_sub_function(p[1], p[2])]]

\* a caller-supplied model: element-dependent, asymmetric, with a free insertion
WeightedCosts ==
    [ins |-> [e \in Alphabet |-> IF e = "a" THEN 1 ELSE 0],
     del |-> [e \in Alphabet |-> IF e = "a" THEN 2 ELSE 1],
     sub |-> [p \in Alphabet \X Alphabet |->
                 IF p[1] = p[2] THEN 0 ELSE IF p[1] = "a" THEN 1 ELSE 3]]

\* a caller-supplied model: unit substitutions, partial credit for "b" = "b"
UnitCosts ==
    [ins |-> [e \in Alphabet |-> 1],
     del |-> [e \in Alphabet |-> 1],
     sub |-> [p \in Alphabet \X Alphabet |->
                 IF p[1] # p[2] THEN 1 ELSE IF p[1] = "b" THEN 1 ELSE 0]]

CostModels == {LevCosts, WeightedCosts, UnitCosts}

----------------------------------------------------------------------------
(* chart.py *)

Coordinates(target_pos, source_pos) == <<target_pos, source_pos>>

Cell(this_cost, cumulative_cost, operation) ==
    [this_cost |-> this_cost, cumulative_cost |-> cumulative_cost,
     operation |-> operation]

START == "start"

INS == "i"

DEL == "d"

SUB == "s"

\* the default value of PairAnalysis.matrix: one dict object, made once when
\* the class is defined and handed to every PairAnalysis built without a matrix
DefaultMatrix == (Coordinates(0, 0) :> Cell(0, 0, START))

\* Python values given to print_len, as the model writes them: a str is a
\* string; a str with characters no string of the model can hold is
\* [str |-> characters], a sequence whose entries are one-character strings
\* or the Unicode names of the characters they stand for; an int is an
\* integer; a list is a sequence of such values
Kind(value) ==
    LET shown == Head(ToString(value))
    IN  IF shown = "\"" \/ shown = "[" THEN "str"
        ELSE IF shown = "<" THEN "list"
        ELSE "int"

\* the characters of a str, one after the other
Characters(text) ==
    IF Head(ToString(text)) = "[" THEN text.str
    ELSE [k \in 1..Len(text) |-> SubSeq(text, k, k)]

\* unicodedata.category for the characters a string of the model can hold and
\* for the characters written by name
category(character) ==
    LET named == ("COMBINING GRAVE ACCENT" :> "Mn"
                  @@ "COMBINING ACUTE ACCENT" :> "Mn"
                  @@ "COMBINING CARON" :> "Mn"
                  @@ "COMBINING CEDILLA" :> "Mn"
                  @@ "COMBINING ENCLOSING CIRCLE" :> "Me"
                  @@ "DEVANAGARI SIGN VISARGA" :> "Mc"
                  @@ "LATIN SMALL LETTER A WITH ACUTE" :> "Ll"
                  @@ "LATIN SMALL LETTER E WITH ACUTE" :> "Ll"
                  @@ "LATIN SMALL LETTER E WITH CARON" :> "Ll"
                  @@ "LATIN SMALL LETTER E WITH CEDILLA" :> "Ll")
        in(text) == \E k \in 1..Len(text) : SubSeq(text, k, k) = character
    IN  CASE character \in DOMAIN named -> named[character]
          [] in("abcdefghijklmnopqrstuvwxyz") -> "Ll"
          [] in("ABCDEFGHIJKLMNOPQRSTUVWXYZ") -> "Lu"
          [] in("0123456789") -> "Nd"
          [] in(" ") -> "Zs"
          [] in("!\"#%&'*,./:;?@\\") -> "Po"
          [] in("$") -> "Sc"
          [] in("([{") -> "Ps"
          [] in(")]}") -> "Pe"
          [] in("+<=>|~") -> "Sm"
          [] in("-") -> "Pd"
          [] in("^") -> "Sk"
          [] in("_") -> "Pc"
          [] in("\t\n\f\r") -> "Cc"

\* one character of a str as repr writes it between the quotes
Escaped(character, quote) ==
    IF character = "\\" THEN <<"\\", "\\">>
    ELSE IF character = quote THEN <<"\\", character>>
    ELSE IF character = "\n" THEN <<"\\", "n">>
    ELSE IF character = "\t" THEN <<"\\", "t">>
    ELSE IF character = "\r" THEN <<"\\", "r">>
    ELSE IF character = "\f" THEN <<"\\", "x", "0", "c">>
    ELSE <<character>>

RECURSIVE EscapedFrom(_, _, _)
EscapedFrom(characters, k, quote) ==
    IF k > Len(characters) THEN <<>>
    ELSE Escaped(characters[k], quote) \o EscapedFrom(characters, k + 1, quote)

RECURSIVE repr(_)
RECURSIVE ReprItems(_, _)
\* the characters of repr(item) for the items of a list from item k on,
\* with ", " between them
ReprItems(items, k) ==
    IF k > Len(items) THEN <<>>
    ELSE (IF k > 1 THEN <<",", " ">> ELSE <<>>)
         \o repr(items[k]) \o ReprItems(items, k + 1)

\* the characters of Python's repr(value): a str between quotes (double
\* quotes when it holds ' and no "), an int in decimal digits, a list between
\* brackets
repr(value) ==
    IF Kind(value) = "str"
    THEN LET characters == Characters(value)
             held == {characters[k] : k \in 1..Len(characters)}
             quote == IF "'" \in held /\ "\"" \notin held THEN "\"" ELSE "'"
         IN  <<quote>> \o EscapedFrom(characters, 1, quote) \o <<quote>>
    ELSE IF Kind(value) = "list"
    THEN <<"[">> \o ReprItems(value, 1) \o <<"]">>
    ELSE Characters(ToString(value))

\* the characters of Python's str(value): those of the str itself, and the
\* repr of anything else
str(value) ==
    IF Kind(value) = "str" THEN Characters(value) ELSE repr(value)

\* chart.print_len and levenshtein.print_len: the number of characters of
\* str(elements) whose Unicode category is not a Mark (M...)
print_len(elements) ==
    LET text == str(elements)
    IN  Cardinality({k \in 1..Len(text) : Head(category(text[k])) # "M"})

Max(S) == CHOOSE x \in S : \A y \in S : y <= x

Min(S) == CHOOSE x \in S : \A y \in S : x <= y

\* max() of an empty sequence raises ValueError, iterating an int TypeError;
\* the elements of a str are its characters
greatest_width(elements) ==
    IF Kind(elements) = "int" THEN [raised |-> "TypeError"]
    ELSE LET items == IF Kind(elements) = "list" THEN elements
                      ELSE [k \in 1..Len(Characters(elements)) |->
                              [str |-> <<Characters(elements)[k]>>]]
         IN  IF Len(items) = 0 THEN [raised |-> "ValueError"]
             ELSE [raised |-> None,
                   value |-> Max({print_len(items[k]) : k \in 1..Len(items)})]

\* the fields of a PairAnalysis other than matrix, which is the shared dict
PairAnalysis(source, target, costs) ==
    [source |-> source, source_widest |-> greatest_width(source).value,
     target |-> target, target_widest |-> greatest_width(target).value,
     costs |-> costs]

\* coords_before of make_edited_cell: the Coordinates whose cell it reads
CoordsBefore(to_coords, src_element, targ_element) ==
    Coordinates(to_coords[1] - (IF targ_element # None THEN 1 ELSE 0),
                to_coords[2] - (IF src_element # None THEN 1 ELSE 0))

make_edited_cell(analysis, m, to_coords, src_element, targ_element) ==
    LET opus == IF src_element = None THEN INS
                ELSE IF targ_element = None THEN DEL
                ELSE SUB
        coords_before == CoordsBefore(to_coords, src_element, targ_element)
        cell_before == m[coords_before]
        cumul_cost_before == cell_before.cumulative_cost
        new_cost == IF opus = INS THEN analysis.costs.ins[targ_element]
                    ELSE IF opus = DEL THEN analysis.costs.del[src_element]
                    ELSE analysis.costs.sub[<<src_element, targ_element>>]
    IN  Cell(new_cost, cumul_cost_before + new_cost, opus)

\* SetItem as dict.setdefault: a key the dict already has keeps its value
SetItem_keeps_existing(m, coords, cell) == m @@ (coords :> cell)

\* dict item assignment: overwrite or add the key
SetItem(m, coords, cell) == (coords :> cell) @@ m

\* Each loop below is a recursion on the position, carrying the dict.  The
\* test coords \in DOMAIN written holds always; it makes TLC evaluate the
\* dict at every iteration instead of building one nested expression.

RECURSIVE TargetMargin(_, _, _)
\* first loop of compute_min_edit_distance, from targ_pos on
TargetMargin(analysis, m, targ_pos) ==
    IF targ_pos > Len(analysis.target) THEN m
    ELSE LET coords == Coordinates(targ_pos, 0)
             written == SetItem(m, coords, make_edited_cell(
                            analysis, m, coords, None, analysis.target[targ_pos]))
         IN  IF coords \in DOMAIN written
             THEN TargetMargin(analysis, written, targ_pos + 1)
             ELSE written

RECURSIVE SourceMargin(_, _, _)
\* second loop of compute_min_edit_distance, from src_pos on
SourceMargin(analysis, m, src_pos) ==
    IF src_pos > Len(analysis.source) THEN m
    ELSE LET coords == Coordinates(0, src_pos)
             written == SetItem(m, coords, make_edited_cell(
                            analysis, m, coords, analysis.source[src_pos], None))
         IN  IF coords \in DOMAIN written
             THEN SourceMargin(analysis, written, src_pos + 1)
             ELSE written

\* the choice preferring the insertion, then the deletion, on a tie
BodyCell_prefers_insert(ins_cell, sub_cell, del_cell) ==
    LET min_cost == Min({ins_cell.cumulative_cost, sub_cell.cumulative_cost,
                         del_cell.cumulative_cost})
    IN  IF min_cost = ins_cell.cumulative_cost THEN ins_cell
        ELSE IF min_cost = del_cell.cumulative_cost THEN del_cell
        ELSE sub_cell

\* the choice among the three candidate cells of a body cell
BodyCell(ins_cell, sub_cell, del_cell) ==
    LET min_cost == Min({ins_cell.cumulative_cost, sub_cell.cumulative_cost,
                         del_cell.cumulative_cost})
    IN  IF min_cost = sub_cell.cumulative_cost THEN sub_cell
        ELSE IF min_cost = del_cell.cumulative_cost THEN del_cell
        ELSE ins_cell

RECURSIVE BodyRow(_, _, _, _)
\* the inner loop of the body of compute_min_edit_distance, from src_pos on
BodyRow(analysis, m, targ_pos, src_pos) ==
    IF src_pos > Len(analysis.source) THEN m
    ELSE LET coords == Coordinates(targ_pos, src_pos)
             targ_element == analysis.target[targ_pos]
             src_element == analysis.source[src_pos]
             ins_cell == make_edited_cell(analysis, m, coords, None, targ_element)
             sub_cell == make_edited_cell(
                             analysis, m, coords, src_element, targ_element)
             del_cell == make_edited_cell(analysis, m, coords, src_element, None)
             written == SetItem(m, coords, BodyCell(ins_cell, sub_cell, del_cell))
         IN  IF coords \in DOMAIN written
             THEN BodyRow(analysis, written, targ_pos, src_pos + 1)
             ELSE written

RECURSIVE Body(_, _, _)
\* the outer loop of the body of compute_min_edit_distance, from targ_pos on
Body(analysis, m, targ_pos) ==
    IF targ_pos > Len(analysis.target) THEN m
    ELSE LET written == BodyRow(analysis, m, targ_pos, 1)
         IN  IF Coordinates(targ_pos, 0) \in DOMAIN written
             THEN Body(analysis, written, targ_pos + 1)
             ELSE written

\* the matrix after compute_min_edit_distance(analysis) ran on matrix m
compute_min_edit_distance(analysis, m) ==
    Body(analysis, SourceMargin(analysis, TargetMargin(analysis, m, 1), 1), 1)

\* one access of compute_min_edit_distance to analysis.matrix
Event(kind, coords) == [kind |-> kind, coords |-> coords]

RECURSIVE Concat(_)
Concat(lists) == IF lists = <<>> THEN <<>> ELSE Head(lists) \o Concat(Tail(lists))

\* the reads (by make_edited_cell) and writes of analysis.matrix that
\* compute_min_edit_distance(analysis) makes, in the order it makes them
BuildEvents(analysis) ==
    LET source == analysis.source
        target == analysis.target
        TargetMarginEvents(targ_pos) ==
            LET coords == Coordinates(targ_pos, 0)
            IN  <<Event("read", CoordsBefore(coords, None, target[targ_pos])),
                  Event("write", coords)>>
        SourceMarginEvents(src_pos) ==
            LET coords == Coordinates(0, src_pos)
            IN  <<Event("read", CoordsBefore(coords, source[src_pos], None)),
                  Event("write", coords)>>
        BodyEvents(targ_pos, src_pos) ==
            LET coords == Coordinates(targ_pos, src_pos)
            IN  <<Event("read", CoordsBefore(coords, None, target[targ_pos])),
                  Event("read", CoordsBefore(coords, source[src_pos],
                                             target[targ_pos])),
                  Event("read", CoordsBefore(coords, source[src_pos], None)),
                  Event("write", coords)>>
    IN  Concat([targ_pos \in 1..Len(target) |-> TargetMarginEvents(targ_pos)])
        \o Concat([src_pos \in 1..Len(source) |-> SourceMarginEvents(src_pos)])
        \o Concat([targ_pos \in 1..Len(target) |->
               Concat([src_pos \in 1..Len(source) |->
                  BodyEvents(targ_pos, src_pos)])])

\* the Coordinates a build reads without having written them before
ReadBeforeWritten(events) ==
    {events[n].coords : n \in {n \in 1..Len(events) :
        /\ events[n].kind = "read"
        /\ ~\E w \in 1..(n - 1) :
              events[w].kind = "write" /\ events[w].coords = events[n].coords}}

min_edit_distance(analysis, m) ==
    m[Coordinates(Len(analysis.target), Len(analysis.source))].cumulative_cost

\* EditStep with the source and target elements exchanged
EditStep_swapped(source, target, cell) ==
    [source |-> target, target |-> source, cell |-> cell]

EditStep(source, target, cell) ==
    [source |-> source, target |-> target, cell |-> cell]

RECURSIVE BacktraceFrom(_, _, _, _, _)
\* the while loop of get_one_backtrace
BacktraceFrom(analysis, m, src_pos, targ_pos, backtrace) ==
    IF ~(src_pos > 0 \/ targ_pos > 0) THEN backtrace
    ELSE LET cell == m[Coordinates(targ_pos, src_pos)]
         IN  IF cell.operation = SUB
             THEN BacktraceFrom(analysis, m, src_pos - 1, targ_pos - 1,
                      <<EditStep(analysis.source[src_pos],
                                 analysis.target[targ_pos], cell)>>
                      \o backtrace)
             ELSE IF cell.operation = INS
             THEN BacktraceFrom(analysis, m, src_pos, targ_pos - 1,
                      <<EditStep(None, analysis.target[targ_pos], cell)>>
                      \o backtrace)
             ELSE BacktraceFrom(analysis, m, src_pos - 1, targ_pos,
                      <<EditStep(analysis.source[src_pos], None, cell)>>
                      \o backtrace)

get_one_backtrace(analysis, m) ==
    BacktraceFrom(analysis, m, Len(analysis.source), Len(analysis.target), <<>>)

\* the move taking the insertion back along the source
StepBack_insert_moves_source(operation) ==
    IF operation = SUB THEN <<1, 1>> ELSE <<1, 0>>

\* what one iteration of the while loop of get_one_backtrace takes off
\* <<src_pos, targ_pos>> for the operation of the cell it stands on
StepBack(operation) ==
    IF operation = SUB THEN <<1, 1>>
    ELSE IF operation = INS THEN <<0, 1>>
    ELSE <<1, 0>>

RECURSIVE BacktracePositions(_, _, _, _)
\* the values <<src_pos, targ_pos>> has at the loop test of get_one_backtrace,
\* one after the other; the last one is where the loop ends, or where
\* analysis.matrix has no cell (KeyError)
BacktracePositions(analysis, m, src_pos, targ_pos) ==
    IF ~(src_pos > 0 \/ targ_pos > 0) THEN <<(<<src_pos, targ_pos>>)>>
    ELSE IF Coordinates(targ_pos, src_pos) \notin DOMAIN m
    THEN <<(<<src_pos, targ_pos>>)>>
    ELSE LET back == StepBack(m[Coordinates(targ_pos, src_pos)].operation)
         IN  <<(<<src_pos, targ_pos>>)>>
             \o BacktracePositions(analysis, m, src_pos - back[1],
                                   targ_pos - back[2])

\* the Coordinates of the matrix of one pair
Range(analysis) == (0..Len(analysis.target)) \X (0..Len(analysis.source))

\* the cells of m at the given Coordinates
CellsAt(m, coords) == [c \in coords \cap DOMAIN m |-> m[c]]

----------------------------------------------------------------------------
(* xducer.py *)

\* xducer.Coordinates: zero-based starting positions in source and target
XCoordinates(source, target) == <<source, target>>

\* xducer.Cell: one step of a Parse
XCell(source, target, this_cost, cumul_cost) ==
    [source |-> source, target |-> target,
     this_cost |-> this_cost, cumul_cost |-> cumul_cost]

\* the empty dict
EmptyMemory == [c \in {} |-> <<>>]

\* the Arguments tuple; its memory dict is threaded through relate
arguments(source, target, costs, just_one) ==
    [source |-> source, target |-> target, cost_functions |-> costs,
     just_one |-> just_one, memory |-> EmptyMemory]

op_cost(args, pos, opus) ==
    IF opus = SUB
    THEN args.cost_functions.sub[<<args.source[pos[1] + 1],
                                   args.target[pos[2] + 1]>>]
    ELSE IF opus = DEL
    THEN args.cost_functions.del[args.source[pos[1] + 1]]
    ELSE args.cost_functions.ins[args.target[pos[2] + 1]]

\* parse_cost reading the last step of the parse
parse_cost_reads_last(pars) == pars[Len(pars)].cumul_cost

parse_cost(pars) == pars[1].cumul_cost

\* MapCons leaving the cost of the rest of the parse out of cumul_cost
MapCons_keeps_cost(cell, tail) ==
    [k \in 1..Len(tail) |-> <<cell>> \o tail[k]]

\* [f(s[1]), ..., f(s[n])] for the list s
MapCons(cell, tail) ==
    [k \in 1..Len(tail) |->
        <<[cell EXCEPT !.cumul_cost = cell.this_cost + parse_cost(tail[k])]>>
        \o tail[k]]

\* remove_suboptimal_parses keeping one minimal parse whatever just_one says
remove_suboptimal_parses_drops_ties(parses, just_one) ==
    IF Len(parses) = 0 THEN [raised |-> "ValueError"]
    ELSE LET minimum == Min({parse_cost(parses[k]) : k \in 1..Len(parses)})
             IsMinimal(pars) == parse_cost(pars) = minimum
             minimal_parses == SelectSeq(parses, IsMinimal)
         IN  [raised |-> None, value |-> <<minimal_parses[1]>>]

\* remove_suboptimal_parses keeping the last minimal parse for just_one
remove_suboptimal_parses_keeps_last(parses, just_one) ==
    IF Len(parses) = 0 THEN [raised |-> "ValueError"]
    ELSE LET minimum == Min({parse_cost(parses[k]) : k \in 1..Len(parses)})
             IsMinimal(pars) == parse_cost(pars) = minimum
             minimal_parses == SelectSeq(parses, IsMinimal)
         IN  [raised |-> None,
              value |-> IF just_one
                        THEN <<minimal_parses[Len(minimal_parses)]>>
                        ELSE minimal_parses]

\* remove_suboptimal_parses filtering nothing out
remove_suboptimal_parses_keeps_all(parses, just_one) ==
    IF Len(parses) = 0 THEN [raised |-> "ValueError"]
    ELSE [raised |-> None,
          value |-> IF just_one THEN <<parses[1]>> ELSE parses]

\* remove_suboptimal_parses: [raised |-> None, value |-> the minimal parses],
\* or the ValueError of min() over no parse at all
remove_suboptimal_parses(parses, just_one) ==
    IF Len(parses) = 0 THEN [raised |-> "ValueError"]
    ELSE LET minimum == Min({parse_cost(parses[k]) : k \in 1..Len(parses)})
             IsMinimal(pars) == parse_cost(pars) = minimum
             minimal_parses == SelectSeq(parses, IsMinimal)
         IN  [raised |-> None,
              value |-> IF just_one THEN <<minimal_parses[1]>>
                        ELSE minimal_parses]

\* what relate did at one Coordinates: "parse" when parse() was entered,
\* "store" when args.memory[start] was set for a new key, "overwrite" when it
\* was set for a key the memo had, "reuse" when the memo's entry was returned
XEvent(kind, coords) == [kind |-> kind, coords |-> coords]

RECURSIVE relate(_, _, _)

\* try_op putting its step after the steps of the rest
try_op_appends(args, memory, start_pos, opus) ==
    LET consume_source == IF opus \in {DEL, SUB} THEN 1 ELSE 0
        consume_target == IF opus \in {INS, SUB} THEN 1 ELSE 0
        tail_start == XCoordinates(start_pos[1] + consume_source,
                                   start_pos[2] + consume_target)
        rest == relate(args, memory, tail_start)
        tail == rest.parses
        cost == op_cost(args, start_pos, opus)
        cell == XCell(
            IF consume_source = 1 THEN args.source[start_pos[1] + 1] ELSE None,
            IF consume_target = 1 THEN args.target[start_pos[2] + 1] ELSE None,
            cost, cost)
    IN  [parses |-> IF tail = <<>> THEN <<(<<cell>>)>>
                    ELSE [k \in 1..Len(tail) |->
                            [n \in 1..Len(tail[k]) |->
                                [tail[k][n] EXCEPT !.cumul_cost = @ + cost]]
                            \o <<cell>>],
         memory |-> rest.memory, log |-> rest.log]

\* try_op, parse and relate return the parses and the memory dict as the call
\* left it, and the log of what the call did: [parses |-> ..., memory |-> ...,
\* log |-> ...]
try_op(args, memory, start_pos, opus) ==
    LET consume_source == IF opus \in {DEL, SUB} THEN 1 ELSE 0
        consume_target == IF opus \in {INS, SUB} THEN 1 ELSE 0
        tail_start == XCoordinates(start_pos[1] + consume_source,
                                   start_pos[2] + consume_target)
        rest == relate(args, memory, tail_start)
        tail == rest.parses
        cost == op_cost(args, start_pos, opus)
        cell == XCell(
            IF consume_source = 1 THEN args.source[start_pos[1] + 1] ELSE None,
            IF consume_target = 1 THEN args.target[start_pos[2] + 1] ELSE None,
            cost, cost)
    IN  [parses |-> IF tail = <<>> THEN <<(<<cell>>)>> ELSE MapCons(cell, tail),
         memory |-> rest.memory, log |-> rest.log]

\* parse returning one path of one empty step when nothing remains
parse_trivial_path(args, memory, start_pos) ==
    LET remaining_source == Len(args.source) - start_pos[1]
        remaining_target == Len(args.target) - start_pos[2]
        sub == IF remaining_source # 0 /\ remaining_target # 0
               THEN try_op(args, memory, start_pos, SUB)
               ELSE [parses |-> <<>>, memory |-> memory, log |-> <<>>]
        entered == <<XEvent("parse", start_pos)>>
        del == IF remaining_source # 0
               THEN try_op(args, sub.memory, start_pos, DEL)
               ELSE [parses |-> <<>>, memory |-> sub.memory, log |-> <<>>]
        ins == IF remaining_target # 0
               THEN try_op(args, del.memory, start_pos, INS)
               ELSE [parses |-> <<>>, memory |-> del.memory, log |-> <<>>]
        parses == sub.parses \o del.parses \o ins.parses
    IN  IF ~(remaining_source # 0 \/ remaining_target # 0)
        THEN [parses |-> <<(<<XCell(None, None, 0, 0)>>)>>, memory |-> memory,
              log |-> entered]
        ELSE [parses |-> remove_suboptimal_parses(parses, args.just_one).value,
              memory |-> ins.memory,
              log |-> entered \o sub.log \o del.log \o ins.log]

\* parse trying the deletion a second time where it should try the insertion
parse_repeats_delete(args, memory, start_pos) ==
    LET remaining_source == Len(args.source) - start_pos[1]
        remaining_target == Len(args.target) - start_pos[2]
        none == [parses |-> <<>>, memory |-> memory, log |-> <<>>]
        entered == <<XEvent("parse", start_pos)>>
        sub == IF remaining_source # 0 /\ remaining_target # 0
               THEN try_op(args, memory, start_pos, SUB) ELSE none
        del == IF remaining_source # 0
               THEN try_op(args, sub.memory, start_pos, DEL)
               ELSE [parses |-> <<>>, memory |-> sub.memory, log |-> <<>>]
        ins == IF remaining_target # 0 /\ remaining_source # 0
               THEN try_op(args, del.memory, start_pos, DEL)
               ELSE IF remaining_target # 0
               THEN try_op(args, del.memory, start_pos, INS)
               ELSE [parses |-> <<>>, memory |-> del.memory, log |-> <<>>]
        parses == sub.parses \o del.parses \o ins.parses
    IN  IF ~(remaining_source # 0 \/ remaining_target # 0)
        THEN [none EXCEPT !.log = entered]
        ELSE [parses |-> IF parses # <<>>
                         THEN remove_suboptimal_parses(parses, args.just_one).value
                         ELSE parses,
              memory |-> ins.memory,
              log |-> entered \o sub.log \o del.log \o ins.log]

parse(args, memory, start_pos) ==
    LET remaining_source == Len(args.source) - start_pos[1]
        remaining_target == Len(args.target) - start_pos[2]
        none == [parses |-> <<>>, memory |-> memory, log |-> <<>>]
        entered == <<XEvent("parse", start_pos)>>
        sub == IF remaining_source # 0 /\ remaining_target # 0
               THEN try_op(args, memory, start_pos, SUB) ELSE none
        del == IF remaining_source # 0
               THEN try_op(args, sub.memory, start_pos, DEL)
               ELSE [parses |-> <<>>, memory |-> sub.memory, log |-> <<>>]
        ins == IF remaining_target # 0
               THEN try_op(args, del.memory, start_pos, INS)
               ELSE [parses |-> <<>>, memory |-> del.memory, log |-> <<>>]
        parses == sub.parses \o del.parses \o ins.parses
    IN  IF ~(remaining_source # 0 \/ remaining_target # 0)
        THEN [none EXCEPT !.log = entered]
        ELSE [parses |-> IF parses # <<>>
                         THEN remove_suboptimal_parses(parses, args.just_one).value
                         ELSE parses,
              memory |-> ins.memory,
              log |-> entered \o sub.log \o del.log \o ins.log]

\* relate taking an empty memo entry for a missing one
relate_recomputes_empty(args, memory, start) ==
    IF start \in DOMAIN memory /\ memory[start] # <<>>
    THEN [parses |-> memory[start], memory |-> memory,
          log |-> <<XEvent("reuse", start)>>]
    ELSE LET found == parse(args, memory, start)
         IN  [parses |-> found.parses,
              memory |-> (start :> found.parses) @@ found.memory,
              log |-> found.log \o
                      <<XEvent(IF start \in DOMAIN found.memory
                               THEN "overwrite" ELSE "store", start)>>]

relate(args, memory, start) ==
    IF start \in DOMAIN memory
    THEN [parses |-> memory[start], memory |-> memory,
          log |-> <<XEvent("reuse", start)>>]
    ELSE LET found == parse(args, memory, start)
         IN  [parses |-> found.parses,
              memory |-> (start :> found.parses) @@ found.memory,
              log |-> found.log \o
                      <<XEvent(IF start \in DOMAIN found.memory
                               THEN "overwrite" ELSE "store", start)>>]

----------------------------------------------------------------------------
(* levenshtein.py *)

\* levenshtein.Cell: cumulative cost and operation
LevCell(num, operation) == [num |-> num, operation |-> operation]

\* levenshtein.greatest_width: 0 for an empty list
Lev_greatest_width(elements) ==
    Max({0} \cup {print_len(elements[k]) : k \in 1..Len(elements)})

\* self.distance before the first set_pair (Python's None): no cell at all
NoDistance == [c \in {} |-> LevCell(0, START)]

\* Levenshtein(), or an object of a subclass overriding the cost methods
NewLevenshtein(costs) ==
    [sequence1 |-> <<>>, sequence2 |-> <<>>, distance |-> NoDistance,
     widest_sequence1_char |-> None, widest_sequence2_char |-> None,
     costs |-> costs]

ins_cost(self, element2) == self.costs.ins[element2]

del_cost(self, element1) == self.costs.del[element1]

sub_cost(self, element1, element2) == self.costs.sub[<<element1, element2>>]

\* the dict _compute_min_edit_distance starts from, keeping the cells of the
\* pair set before
NewDistance_keeps_cells(self) ==
    (Coordinates(0, 0) :> LevCell(0, START)) @@ self.distance

\* self.distance = distance = {(0, 0): Cell(0.0, START)}
NewDistance(self) == (Coordinates(0, 0) :> LevCell(0, START))

RECURSIVE LevTargetMargin(_, _, _)
\* first loop of _compute_min_edit_distance; i = targ_pos + 1
LevTargetMargin(self, distance, i) ==
    IF i > Len(self.sequence2) THEN distance
    ELSE LET written == SetItem(distance, Coordinates(i, 0),
                 LevCell(distance[Coordinates(i - 1, 0)].num
                         + ins_cost(self, self.sequence2[i]), INS))
         IN  IF Coordinates(i, 0) \in DOMAIN written
             THEN LevTargetMargin(self, written, i + 1)
             ELSE written

RECURSIVE LevSourceMargin(_, _, _)
\* second loop of _compute_min_edit_distance; j = src_pos + 1
LevSourceMargin(self, distance, j) ==
    IF j > Len(self.sequence1) THEN distance
    ELSE LET written == SetItem(distance, Coordinates(0, j),
                 LevCell(distance[Coordinates(0, j - 1)].num
                         + del_cost(self, self.sequence1[j]), DEL))
         IN  IF Coordinates(0, j) \in DOMAIN written
             THEN LevSourceMargin(self, written, j + 1)
             ELSE written

\* the body cell taking the cheaper of substitution and deletion only
LevBodyCell_ignores_insert(insert, substitute, delete) ==
    LET min_cost == Min({substitute, delete})
    IN  LevCell(min_cost, IF min_cost = substitute THEN SUB ELSE DEL)

\* the Cell of the body from the three candidate costs
LevBodyCell(insert, substitute, delete) ==
    LET min_cost == Min({insert, substitute, delete})
    IN  LevCell(min_cost,
                IF min_cost = substitute THEN SUB
                ELSE IF min_cost = delete THEN DEL
                ELSE INS)

RECURSIVE LevBodyRow(_, _, _, _)
\* the inner loop of the body of _compute_min_edit_distance
LevBodyRow(self, distance, i, j) ==
    IF j > Len(self.sequence1) THEN distance
    ELSE LET targ_element == self.sequence2[i]
             src_element == self.sequence1[j]
             insert == distance[Coordinates(i - 1, j)].num
                       + ins_cost(self, targ_element)
             substitute == distance[Coordinates(i - 1, j - 1)].num
                           + sub_cost(self, src_element, targ_element)
             delete == distance[Coordinates(i, j - 1)].num
                       + del_cost(self, src_element)
             written == SetItem(distance, Coordinates(i, j),
                                LevBodyCell(insert, substitute, delete))
         IN  IF Coordinates(i, j) \in DOMAIN written
             THEN LevBodyRow(self, written, i, j + 1)
             ELSE written

RECURSIVE LevBody(_, _, _)
\* the outer loop of the body of _compute_min_edit_distance
LevBody(self, distance, i) ==
    IF i > Len(self.sequence2) THEN distance
    ELSE LET written == LevBodyRow(self, distance, i, 1)
         IN  IF Coordinates(i, 0) \in DOMAIN written
             THEN LevBody(self, written, i + 1)
             ELSE written

\* Levenshtein.min_edit_distance: indexing None, before any set_pair, raises
Lev_min_edit_distance(self) ==
    LET coords == Coordinates(Len(self.sequence2), Len(self.sequence1))
    IN  IF coords \in DOMAIN self.distance
        THEN [raised |-> None, value |-> self.distance[coords].num]
        ELSE [raised |-> "TypeError"]

\* the object after Levenshtein._compute_min_edit_distance
Lev_compute_min_edit_distance(self) ==
    [self EXCEPT !.distance =
        LevBody(self, LevSourceMargin(self,
                    LevTargetMargin(self, NewDistance(self), 1), 1), 1)]

\* the object after Levenshtein.set_pair(sequence1, sequence2)
set_pair(self, sequence1, sequence2) ==
    Lev_compute_min_edit_distance(
        [self EXCEPT !.sequence1 = sequence1,
                     !.sequence2 = sequence2,
                     !.widest_sequence1_char = Lev_greatest_width(sequence1),
                     !.widest_sequence2_char = Lev_greatest_width(sequence2)])

AlignmentUnit(unit1, unit2, cost) ==
    [unit1 |-> unit1, unit2 |-> unit2, cost |-> cost]

RECURSIVE LevBacktraceFrom(_, _, _, _)
\* the while loop of Levenshtein.alignment_facts
LevBacktraceFrom(self, position1, position2, backtrace) ==
    IF ~(position1 > 0 \/ position2 > 0) THEN backtrace
    ELSE LET cell == self.distance[Coordinates(position2, position1)]
             provenance == cell.operation
             cost == cell.num
         IN  IF provenance = SUB
             THEN LevBacktraceFrom(self, position1 - 1, position2 - 1,
                      <<AlignmentUnit(self.sequence1[position1],
                                      self.sequence2[position2], cost)>>
                      \o backtrace)
             ELSE IF provenance = INS
             THEN LevBacktraceFrom(self, position1, position2 - 1,
                      <<AlignmentUnit(None, self.sequence2[position2], cost)>>
                      \o backtrace)
             ELSE LevBacktraceFrom(self, position1 - 1, position2,
                      <<AlignmentUnit(self.sequence1[position1], None, cost)>>
                      \o backtrace)

\* Levenshtein.alignment_facts
alignment_facts(self) ==
    LevBacktraceFrom(self, Len(self.sequence1), Len(self.sequence2), <<>>)

----------------------------------------------------------------------------
(* Calls of the engines *)

NoCall == [op |-> "none", n |-> 0]

\* chart.levenshtein(source, target, costs) and the caller's reading of the
\* result right after the return
Levenshtein(source, target, costs) ==
    /\ IF \/ greatest_width(source).raised = "ValueError"
          \/ greatest_width(target).raised = "ValueError"
       THEN /\ calls' = Append(calls,
                  [source |-> source, target |-> target, costs |-> costs,
                   outcome |-> "ValueError"])
            /\ UNCHANGED matrix
       ELSE LET analysis == PairAnalysis(source, target, costs)
                m == compute_min_edit_distance(analysis, matrix)
            IN  /\ matrix' = m
                /\ calls' = Append(calls,
                      [source |-> source, target |-> target, costs |-> costs,
                       outcome |-> "returned",
                       analysis |-> analysis,
                       distance |-> min_edit_distance(analysis, m),
                       backtrace |-> get_one_backtrace(analysis, m),
                       cells |-> CellsAt(m, Range(analysis)),
                       read_unwritten |->
                          ReadBeforeWritten(BuildEvents(analysis))])
    /\ UNCHANGED <<xd, lev>>

\* xducer.relate(xducer.arguments(source, target, costs, just_one), start)
Relate(source, target, costs, just_one, start) ==
    /\ LET args == arguments(source, target, costs, just_one)
           result == relate(args, args.memory, start)
       IN  xd' = [op |-> "relate", n |-> xd.n + 1,
                  source |-> source, target |-> target, costs |-> costs,
                  just_one |-> just_one, start |-> start,
                  parses |-> result.parses, memory |-> result.memory,
                  log |-> result.log]
    /\ UNCHANGED <<matrix, calls, lev>>

NoResult == [raised |-> "nothing"]

\* one Levenshtein object and what its caller got from it: the number of
\* set_pair calls made, what the last one returned, and what
\* min_edit_distance() and alignment_facts() returned since
LevObject(costs) ==
    [self |-> NewLevenshtein(costs), n |-> 0, returned |-> NoResult,
     queried |-> NoResult, facts |-> NoResult]

\* lev.set_pair(sequence1, sequence2)
SetPair(sequence1, sequence2) ==
    /\ LET self == set_pair(lev.self, sequence1, sequence2)
       IN  lev' = [self |-> self, n |-> lev.n + 1,
                   returned |-> Lev_min_edit_distance(self),
                   queried |-> NoResult, facts |-> NoResult]
    /\ UNCHANGED <<matrix, calls, xd>>

\* lev.min_edit_distance()
MinEditDistance ==
    /\ lev' = [lev EXCEPT !.queried = Lev_min_edit_distance(lev.self)]
    /\ UNCHANGED <<matrix, calls, xd>>

\* lev.alignment_facts()
AlignmentFacts ==
    /\ lev' = [lev EXCEPT !.facts =
                  [raised |-> None, value |-> alignment_facts(lev.self)]]
    /\ UNCHANGED <<matrix, calls, xd>>

Init ==
    /\ matrix = DefaultMatrix
    /\ calls = <<>>
    /\ xd = NoCall
    /\ lev = LevObject(LevCosts)

\* a session of at most MaxCalls engine calls
Next ==
    /\ Len(calls) + xd.n < MaxCalls
    /\ \E source \in SessionSeqs, target \in SessionSeqs, costs \in CostModels :
          \/ Levenshtein(source, target, costs)
          \/ \E just_one \in BOOLEAN :
                Relate(source, target, costs, just_one, XCoordinates(0, 0))

Spec == Init /\ [][Next]_vars

\* pairs analysed earlier in the process, whose cells the shared dict keeps
PriorPairs ==
    {[source |-> <<"a", "b", "a">>, target |-> <<"b", "b", "a", "b">>,
      costs |-> WeightedCosts],
     [source |-> <<"b">>, target |-> <<"a", "a">>, costs |-> LevCosts]}

PriorInputs(k) ==
    [source |-> calls[k].source, target |-> calls[k].target,
     costs |-> calls[k].costs]

\* one call of either engine: chart.levenshtein in a process that has
\* analysed nothing yet or one of PriorPairs, or relate from any starting
\* Coordinates within the sequences
NextOne ==
    /\ xd = NoCall
    /\ \/ /\ calls = <<>>
          /\ \E prior \in PriorPairs :
                Levenshtein(prior.source, prior.target, prior.costs)
       \/ /\ calls = <<>> \/ (Len(calls) = 1 /\ PriorInputs(1) \in PriorPairs)
          /\ \E source \in Seqs, target \in Seqs, costs \in CostModels :
                Levenshtein(source, target, costs)
       \/ /\ calls = <<>>
          /\ \E source \in Seqs, target \in Seqs, costs \in CostModels,
                just_one \in BOOLEAN :
                \E start \in (0..Len(source)) \X (0..Len(target)) :
                   Relate(source, target, costs, just_one, start)

SpecOne == Init /\ [][NextOne]_vars

\* one object of class Levenshtein or of a subclass with its own costs
InitLev ==
    /\ matrix = DefaultMatrix
    /\ calls = <<>>
    /\ xd = NoCall
    /\ \E costs \in CostModels : lev = LevObject(costs)

\* at most MaxCalls set_pair calls on the object, and min_edit_distance()
\* at any time
NextLev ==
    \/ /\ lev.n < MaxCalls
       /\ \E sequence1 \in SessionSeqs, sequence2 \in SessionSeqs :
             SetPair(sequence1, sequence2)
    \/ /\ lev.queried = NoResult
       /\ MinEditDistance

SpecLev == InitLev /\ [][NextLev]_vars

\* one pair given to both engines under the default costs: chart.levenshtein
\* in a process that has analysed nothing yet or one of PriorPairs, then
\* set_pair on a new Levenshtein object and its alignment_facts()
NextBoth ==
    \/ /\ calls = <<>>
       /\ \E prior \in PriorPairs :
             Levenshtein(prior.source, prior.target, prior.costs)
    \/ /\ lev.n = 0
       /\ calls = <<>> \/ (Len(calls) = 1 /\ PriorInputs(1) \in PriorPairs)
       /\ \E source \in Seqs, target \in Seqs :
             Levenshtein(source, target, LevCosts)
    \/ /\ lev.n = 0
       /\ calls # <<>>
       /\ SetPair(calls[Len(calls)].source, calls[Len(calls)].target)
    \/ /\ lev.n = 1
       /\ lev.facts = NoResult
       /\ AlignmentFacts

SpecBoth == Init /\ [][NextBoth]_vars

----------------------------------------------------------------------------
(* What the claims speak of: every alignment of two sequences and its cost *)

RECURSIVE AlignmentSteps(_, _, _)
\* every alignment of source with target: each series of steps
\* <<source element or None, target element or None, cost>> in which every
\* step is a substitution, a deletion or an insertion and which takes the
\* elements of source, and those of target, each once and in order
AlignmentSteps(source, target, costs) ==
    IF source = <<>> /\ target = <<>> THEN {<<>>}
    ELSE (IF source # <<>> /\ target # <<>>
          THEN {<<<<Head(source), Head(target),
                    costs.sub[<<Head(source), Head(target)>>]>>>> \o rest :
                   rest \in AlignmentSteps(Tail(source), Tail(target), costs)}
          ELSE {})
         \cup
         (IF source # <<>>
          THEN {<<<<Head(source), None, costs.del[Head(source)]>>>> \o rest :
                   rest \in AlignmentSteps(Tail(source), target, costs)}
          ELSE {})
         \cup
         (IF target # <<>>
          THEN {<<<<None, Head(target), costs.ins[Head(target)]>>>> \o rest :
                   rest \in AlignmentSteps(source, Tail(target), costs)}
          ELSE {})

RECURSIVE SumCosts(_)
SumCosts(steps) ==
    IF steps = <<>> THEN 0 ELSE Head(steps)[3] + SumCosts(Tail(steps))

\* the minimum edit cost of turning source into target
MinimumCost(source, target, costs) ==
    Min({SumCosts(steps) : steps \in AlignmentSteps(source, target, costs)})

\* the alignments of minimum cost
MinimalAlignments(source, target, costs) ==
    LET all == AlignmentSteps(source, target, costs)
        minimum == Min({SumCosts(steps) : steps \in all})
    IN  {steps \in all : SumCosts(steps) = minimum}

Prefix(seq, n) == SubSeq(seq, 1, n)

Suffix(seq, from) == SubSeq(seq, from + 1, Len(seq))

\* the steps of a Parse without the cumulative costs
ParseSteps(pars) ==
    [k \in 1..Len(pars) |-> <<pars[k].source, pars[k].target, pars[k].this_cost>>]

\* the steps of a Backtrace
BacktraceSteps(backtrace) ==
    [k \in 1..Len(backtrace) |->
        <<backtrace[k].source, backtrace[k].target, backtrace[k].cell.this_cost>>]

Returned == {k \in 1..Len(calls) : calls[k].outcome = "returned"}

----------------------------------------------------------------------------
(* Claims *)

\* C2: after chart.levenshtein returns, every cell (i, j) of the pair's range
\* holds the minimum summed cost over all alignments of source[0..j) with
\* target[0..i), and min_edit_distance is the minimum edit cost of the pair.
C2_TabularOptimality ==
    \A k \in Returned :
        /\ \A coords \in Range(calls[k].analysis) :
              /\ coords \in DOMAIN calls[k].cells
              /\ calls[k].cells[coords].cumulative_cost =
                    MinimumCost(Prefix(calls[k].source, coords[2]),
                                Prefix(calls[k].target, coords[1]),
                                calls[k].costs)
        /\ calls[k].distance =
              MinimumCost(calls[k].source, calls[k].target, calls[k].costs)

\* a build over stale cells of an earlier analysis, where the cheapest
\* alignment is not the diagonal one
C2_Witness ==
    /\ Len(calls) = 2
    /\ calls[2].outcome = "returned"
    /\ Len(calls[2].source) = 3
    /\ Len(calls[2].target) = 2
    /\ calls[2].costs = WeightedCosts
    /\ calls[2].distance = 2
    /\ calls[2].cells # calls[1].cells
    /\ \E c \in DOMAIN matrix : c \notin Range(calls[2].analysis)

\* the calls of chart.levenshtein made on the inputs of the relate call
SameInputs ==
    {k \in 1..Len(calls) :
        /\ xd.op = "relate"
        /\ calls[k].source = xd.source
        /\ calls[k].target = xd.target
        /\ calls[k].costs = xd.costs}

Origin == XCoordinates(0, 0)

\* C1: for all sequences and cost models, every path of
\* relate(arguments(source, target, costs)) has parse_cost equal to
\* min_edit_distance(levenshtein(source, target, costs)).
C1_EngineAgreement ==
    (xd.op = "relate" /\ xd.start = Origin) =>
        \A k \in SameInputs : \A n \in 1..Len(xd.parses) :
            /\ calls[k].outcome = "returned"
            /\ parse_cost(xd.parses[n]) = calls[k].distance

\* the two engines agree wherever chart.levenshtein returns
AgreementWhereReturned ==
    (xd.op = "relate" /\ xd.start = Origin) =>
        \A k \in SameInputs \cap Returned : \A n \in 1..Len(xd.parses) :
            parse_cost(xd.parses[n]) = calls[k].distance

\* the alignments of the remainders of source and target from start on
RemainderAlignments ==
    MinimalAlignments(Suffix(xd.source, xd.start[1]),
                      Suffix(xd.target, xd.start[2]), xd.costs)

RemainderCost ==
    MinimumCost(Suffix(xd.source, xd.start[1]),
                Suffix(xd.target, xd.start[2]), xd.costs)

ReturnedSteps == {ParseSteps(xd.parses[n]) : n \in 1..Len(xd.parses)}

AtEnd == xd.start = XCoordinates(Len(xd.source), Len(xd.target))

\* the paths are exactly the minimal-cost alignments of the remainders, each
\* with the minimum cost
ExactlyTheMinimal ==
    LET minimum == RemainderCost
    IN  /\ ReturnedSteps = RemainderAlignments
        /\ \A n \in 1..Len(xd.parses) : parse_cost(xd.parses[n]) = minimum

\* C3 as stated: with just_one false and a fresh memo, for every start within
\* the sequences relate returns exactly the minimal-cost alignments of
\* source[start.source:] with target[start.target:], each with that cost.
C3_CompleteEverywhere ==
    (xd.op = "relate" /\ ~xd.just_one) => ExactlyTheMinimal

\* C3 amended: the same for every start that leaves at least one element of
\* source or target; at the end of both sequences relate returns no path.
C3_CompleteBeforeEnd ==
    (xd.op = "relate" /\ ~xd.just_one) =>
        IF AtEnd THEN xd.parses = <<>> ELSE ExactlyTheMinimal

\* a start inside the sequences with several minimal alignments, all returned
C3_Witness ==
    /\ xd.op = "relate"
    /\ ~xd.just_one
    /\ xd.start = XCoordinates(1, 0)
    /\ Len(xd.source) = 3
    /\ Len(xd.target) = 2
    /\ Len(xd.parses) >= 3
    /\ Cardinality(ReturnedSteps) = Len(xd.parses)

FirstOf(parses) == IF parses = <<>> THEN <<>> ELSE <<parses[1]>>

\* the same relate call with just_one false
AllParses ==
    relate(arguments(xd.source, xd.target, xd.costs, FALSE), EmptyMemory,
           xd.start)

\* C8: the path returned with just_one true is the first element of the list
\* returned with just_one false, and so is the path kept at every Coordinates
\* of the memo.
C8_JustOneIsFirst ==
    (xd.op = "relate" /\ xd.just_one) =>
        LET all == AllParses
        IN  /\ xd.parses = FirstOf(all.parses)
            /\ DOMAIN xd.memory = DOMAIN all.memory
            /\ \A c \in DOMAIN xd.memory :
                  xd.memory[c] = FirstOf(all.memory[c])

\* a just_one call on a pair with several minimal alignments
C8_Witness ==
    /\ xd.op = "relate"
    /\ xd.just_one
    /\ xd.start = Origin
    /\ Len(xd.parses) = 1
    /\ Len(AllParses.parses) >= 3
    /\ xd.parses[1] = AllParses.parses[1]
    /\ xd.parses[1][1].source = None

\* the elements of a list of steps that are not None
Present(elements) == LET IsPresent(e) == e # None IN SelectSeq(elements, IsPresent)

SourcesOf(path) == Present([k \in 1..Len(path) |-> path[k].source])

TargetsOf(path) == Present([k \in 1..Len(path) |-> path[k].target])

\* C9: the non-None source elements of the steps of get_one_backtrace, and of
\* every path relate returns from the origin, are the source sequence in
\* order; the non-None target elements are the target sequence.
C9_Reconstruction ==
    /\ \A k \in Returned :
          /\ SourcesOf(calls[k].backtrace) = calls[k].source
          /\ TargetsOf(calls[k].backtrace) = calls[k].target
    /\ (xd.op = "relate" /\ xd.start = Origin) =>
          \A n \in 1..Len(xd.parses) :
             /\ SourcesOf(xd.parses[n]) = xd.source
             /\ TargetsOf(xd.parses[n]) = xd.target

\* a backtrace with an insertion and a deletion between unequal sequences
C9_Witness ==
    /\ Len(calls) = 2
    /\ calls[2].outcome = "returned"
    /\ calls[2].source # calls[2].target
    /\ Len(calls[2].source) = 3
    /\ \E k \in 1..Len(calls[2].backtrace) : calls[2].backtrace[k].source = None
    /\ \E k \in 1..Len(calls[2].backtrace) : calls[2].backtrace[k].target = None

\* C4: a later chart.levenshtein call leaves the cells of an earlier analysis
\* unchanged, so min_edit_distance and get_one_backtrace on the earlier
\* analysis keep returning what they returned before.
C4_AnalysisImmutable ==
    \A k \in Returned :
        /\ CellsAt(matrix, Range(calls[k].analysis)) = calls[k].cells
        /\ min_edit_distance(calls[k].analysis, matrix) = calls[k].distance
        /\ get_one_backtrace(calls[k].analysis, matrix) = calls[k].backtrace

\* C5: after chart.levenshtein(source, target) returns, whatever calls came
\* before, the matrix holds exactly (|source|+1)*(|target|+1) cells, one for
\* each Coordinates of the pair and none elsewhere.
C5_OneCellPerCoordinates ==
    (calls # <<>> /\ calls[Len(calls)].outcome = "returned") =>
        /\ DOMAIN matrix = Range(calls[Len(calls)].analysis)
        /\ Cardinality(DOMAIN matrix) =
              (Len(calls[Len(calls)].source) + 1)
              * (Len(calls[Len(calls)].target) + 1)

InsertAll(target, costs) ==
    [k \in 1..Len(target) |-> <<None, target[k], costs.ins[target[k]]>>]

DeleteAll(source, costs) ==
    [k \in 1..Len(source) |-> <<source[k], None, costs.del[source[k]]>>]

\* C6: chart.levenshtein with an empty source, an empty target or both returns
\* without raising, and its min_edit_distance is the sum of the insert costs
\* of the target (empty source), of the delete costs of the source (empty
\* target), or 0 (both empty).
C6_DegenerateInputs ==
    \A k \in 1..Len(calls) :
        (calls[k].source = <<>> \/ calls[k].target = <<>>) =>
            /\ calls[k].outcome = "returned"
            /\ calls[k].distance =
                  SumCosts(InsertAll(calls[k].target, calls[k].costs))
                  + SumCosts(DeleteAll(calls[k].source, calls[k].costs))

\* C7: for all sequences and every cost model, relate with just_one true
\* returns exactly one path, whose cost is the tabular edit distance.
C7_JustOneDeterminism ==
    (xd.op = "relate" /\ xd.just_one /\ xd.start = Origin) =>
        /\ Len(xd.parses) = 1
        /\ \A k \in SameInputs :
              /\ calls[k].outcome = "returned"
              /\ parse_cost(xd.parses[1]) = calls[k].distance

\* relate with just_one true returns one path of the tabular edit distance
\* wherever chart.levenshtein returns
JustOneWhereReturned ==
    (xd.op = "relate" /\ xd.just_one /\ xd.start = Origin) =>
        \A k \in SameInputs \cap Returned :
            /\ Len(xd.parses) = 1
            /\ parse_cost(xd.parses[1]) = calls[k].distance

OnlyEqualSubstitutions(backtrace) ==
    \A n \in 1..Len(backtrace) :
        /\ backtrace[n].cell.operation = SUB
        /\ backtrace[n].source = backtrace[n].target

\* C10: for all sequences s, under the default costs
\* min_edit_distance(levenshtein(s, s)) is 0 and get_one_backtrace consists
\* only of SUBSTITUTE steps with equal elements.
C10_SelfIdentity ==
    \A k \in 1..Len(calls) :
        (calls[k].source = calls[k].target /\ calls[k].costs = LevCosts) =>
            /\ calls[k].outcome = "returned"
            /\ calls[k].distance = 0
            /\ OnlyEqualSubstitutions(calls[k].backtrace)

\* self-identity wherever chart.levenshtein returns
SelfIdentityWhereReturned ==
    \A k \in Returned :
        (calls[k].source = calls[k].target /\ calls[k].costs = LevCosts) =>
            /\ calls[k].distance = 0
            /\ OnlyEqualSubstitutions(calls[k].backtrace)

\* the cumulative cost stored on the last step of a backtrace is the sum of
\* the incremental costs of its steps, and the minimum edit cost of the pair
BacktraceTotalOnLast ==
    \A k \in Returned :
        LET backtrace == calls[k].backtrace
        IN  /\ backtrace # <<>>
            /\ backtrace[Len(backtrace)].cell.cumulative_cost =
                  SumCosts(BacktraceSteps(backtrace))
            /\ SumCosts(BacktraceSteps(backtrace)) =
                  MinimumCost(calls[k].source, calls[k].target, calls[k].costs)

RECURSIVE ThisCostsFrom(_, _)
\* the sum of the incremental costs of the steps of a Parse from step k on
ThisCostsFrom(pars, k) ==
    IF k > Len(pars) THEN 0 ELSE pars[k].this_cost + ThisCostsFrom(pars, k + 1)

\* C11 as stated: the cumulative cost stored on the last step of the path of
\* get_one_backtrace, and of every path returned by relate, equals the sum of
\* the incremental costs of all steps of the path.
C11_TotalOnLastStep ==
    /\ BacktraceTotalOnLast
    /\ xd.op = "relate" =>
          \A n \in 1..Len(xd.parses) :
             xd.parses[n][Len(xd.parses[n])].cumul_cost =
                ThisCostsFrom(xd.parses[n], 1)

\* C11 amended: the total is on the last step of the path get_one_backtrace
\* returns right after the build, and on the first step of every path relate
\* returns, whose last step holds only its own incremental cost; the total
\* is the minimum edit cost of what the path aligns.
C11_TotalOnLastOrFirstStep ==
    /\ BacktraceTotalOnLast
    /\ xd.op = "relate" =>
          LET minimum == RemainderCost
          IN  \A n \in 1..Len(xd.parses) :
                 LET pars == xd.parses[n]
                     total == ThisCostsFrom(pars, 1)
                 IN  /\ pars[1].cumul_cost = total
                     /\ pars[Len(pars)].cumul_cost = pars[Len(pars)].this_cost
                     /\ total = minimum

\* a returned path of several steps whose total is on the first step and not
\* on the last
C11_Witness ==
    /\ xd.op = "relate"
    /\ xd.start = Origin
    /\ xd.costs = WeightedCosts
    /\ \E n \in 1..Len(xd.parses) :
          /\ Len(xd.parses[n]) = 4
          /\ xd.parses[n][1].cumul_cost = 3
          /\ SumCosts(ParseSteps(xd.parses[n])) = 3
          /\ xd.parses[n][4].cumul_cost = 1

\* the same relate call made on a fresh Arguments value
FreshRelate ==
    relate(arguments(xd.source, xd.target, xd.costs, xd.just_one), EmptyMemory,
           xd.start)

\* the same arguments give the same results, whatever was called before
SameResultsForSameArguments ==
    /\ \A k \in 1..Len(calls), n \in 1..Len(calls) :
          (/\ calls[k].source = calls[n].source
           /\ calls[k].target = calls[n].target
           /\ calls[k].costs = calls[n].costs) =>
              /\ calls[k].outcome = calls[n].outcome
              /\ calls[k].outcome = "returned" =>
                    /\ calls[k].distance = calls[n].distance
                    /\ calls[k].backtrace = calls[n].backtrace
    /\ xd.op = "relate" =>
          /\ xd.parses = FreshRelate.parses
          /\ DOMAIN xd.memory \subseteq
                (0..Len(xd.source)) \X (0..Len(xd.target))

\* C12: chart.levenshtein queried right away and relate on a new Arguments
\* value return the same result for the same arguments whatever calls were
\* made before, and every matrix cell read while building was written during
\* that same build.
C12_FunctionsOfArguments ==
    /\ SameResultsForSameArguments
    /\ \A k \in Returned : calls[k].read_unwritten = {}

\* the only cell a build reads without writing it is the origin cell
OnlyOriginReadUnwritten ==
    \A k \in Returned : calls[k].read_unwritten = {Coordinates(0, 0)}

\* C13: relate(arguments(empty, empty)) returns an empty list: no path, not
\* one empty path.
C13_EmptiesGiveNoPath ==
    (xd.op = "relate" /\ xd.source = <<>> /\ xd.target = <<>>) =>
        /\ xd.parses = <<>>
        /\ Len(xd.parses) = 0

\* relate on two empty sequences has returned, and stored its empty result
C13_Witness ==
    /\ xd.op = "relate"
    /\ xd.source = <<>>
    /\ xd.target = <<>>
    /\ xd.start = Origin
    /\ ~xd.just_one
    /\ xd.parses = <<>>
    /\ DOMAIN xd.memory = {Origin}

\* C14: for an empty source and a non-empty target relate returns exactly one
\* path, of one INSERT step per target element in target order; for a
\* non-empty source and an empty target exactly one path of one DELETE step
\* per source element in source order; under the default costs each step
\* costs 1 and the total is the length of the sequence.
C14_OneEmptySide ==
    (xd.op = "relate" /\ xd.start = Origin) =>
        /\ (xd.source = <<>> /\ xd.target # <<>>) =>
              /\ Len(xd.parses) = 1
              /\ ParseSteps(xd.parses[1]) = InsertAll(xd.target, xd.costs)
              /\ xd.costs = LevCosts =>
                    /\ \A n \in 1..Len(xd.parses[1]) :
                          xd.parses[1][n].this_cost = 1
                    /\ parse_cost(xd.parses[1]) = Len(xd.target)
        /\ (xd.source # <<>> /\ xd.target = <<>>) =>
              /\ Len(xd.parses) = 1
              /\ ParseSteps(xd.parses[1]) = DeleteAll(xd.source, xd.costs)
              /\ xd.costs = LevCosts =>
                    /\ \A n \in 1..Len(xd.parses[1]) :
                          xd.parses[1][n].this_cost = 1
                    /\ parse_cost(xd.parses[1]) = Len(xd.source)

\* three different elements deleted in order against an empty target
C14_Witness ==
    /\ xd.op = "relate"
    /\ xd.start = Origin
    /\ ~xd.just_one
    /\ xd.source = <<"a", "b", "b">>
    /\ xd.target = <<>>
    /\ xd.costs = LevCosts
    /\ Len(xd.parses) = 1
    /\ SourcesOf(xd.parses[1]) = <<"a", "b", "b">>
    /\ TargetsOf(xd.parses[1]) = <<>>
    /\ parse_cost(xd.parses[1]) = 3

\* the (source element or None, target element or None) steps of a Parse
ParsePairs(pars) == [k \in 1..Len(pars) |-> <<pars[k].source, pars[k].target>>]

ReturnedPairs == {ParsePairs(xd.parses[n]) : n \in 1..Len(xd.parses)}

\* C15 as stated: with just_one false no two entries of the list relate
\* returns are the same sequence of (source element or None, target element
\* or None) steps, so the length of the list is the number of different
\* minimal-cost alignments.
C15_PathsDistinct ==
    (xd.op = "relate" /\ ~xd.just_one) =>
        /\ \A m \in 1..Len(xd.parses), n \in 1..Len(xd.parses) :
              m # n => ParsePairs(xd.parses[m]) # ParsePairs(xd.parses[n])
        /\ Len(xd.parses) = Cardinality(ReturnedPairs)
        /\ Len(xd.parses) = Cardinality(RemainderAlignments)

\* C15 amended: with just_one false no two entries of the list relate returns
\* are the same sequence of steps; wherever an element of source or target
\* remains the length of the list is the number of different minimal-cost
\* alignments of the remainders, and at the end of both sequences the list is
\* empty although the empty alignment is the one minimal alignment.
C15_PathsDistinctBeforeEnd ==
    (xd.op = "relate" /\ ~xd.just_one) =>
        /\ \A m \in 1..Len(xd.parses), n \in 1..Len(xd.parses) :
              m # n => ParsePairs(xd.parses[m]) # ParsePairs(xd.parses[n])
        /\ Len(xd.parses) = Cardinality(ReturnedPairs)
        /\ LET alignments == Cardinality(RemainderAlignments)
           IN  IF AtEnd THEN Len(xd.parses) = 0 /\ alignments = 1
               ELSE Len(xd.parses) = alignments

\* a pair with at least five minimal alignments, each returned once
C15_Witness ==
    /\ xd.op = "relate"
    /\ ~xd.just_one
    /\ xd.start = Origin
    /\ xd.costs = LevCosts
    /\ Len(xd.source) = 3
    /\ Len(xd.target) = 3
    /\ Len(xd.parses) >= 5
    /\ Cardinality(ReturnedPairs) = Len(xd.parses)

\* C16: for identical non-empty source and target under the default costs,
\* relate returns exactly one path, made only of substitution steps that pair
\* each element with itself at cost 0.
C16_IdenticalOnePath ==
    (/\ xd.op = "relate"
     /\ xd.start = Origin
     /\ xd.source = xd.target
     /\ xd.source # <<>>
     /\ xd.costs = LevCosts) =>
        /\ Len(xd.parses) = 1
        /\ Len(xd.parses[1]) = Len(xd.source)
        /\ \A n \in 1..Len(xd.parses[1]) :
              /\ xd.parses[1][n].source = xd.source[n]
              /\ xd.parses[1][n].target = xd.source[n]
              /\ xd.parses[1][n].this_cost = 0
              /\ xd.parses[1][n].cumul_cost = 0

\* all the alignments of a sequence of three with itself were asked for, and
\* one came back
C16_Witness ==
    /\ xd.op = "relate"
    /\ xd.start = Origin
    /\ ~xd.just_one
    /\ xd.costs = LevCosts
    /\ xd.source = <<"a", "b", "a">>
    /\ xd.target = xd.source
    /\ Len(xd.parses) = 1
    /\ parse_cost(xd.parses[1]) = 0
    /\ Cardinality(DOMAIN xd.memory) = 16

\* the pairs of calls of chart.levenshtein under the default costs in which
\* one call has the source and target of the other exchanged
Mirrored ==
    {pair \in (1..Len(calls)) \X (1..Len(calls)) :
        /\ calls[pair[1]].costs = LevCosts
        /\ calls[pair[2]].costs = LevCosts
        /\ calls[pair[1]].source = calls[pair[2]].target
        /\ calls[pair[1]].target = calls[pair[2]].source}

\* C17: under the default costs, for all sequences s and t,
\* min_edit_distance(levenshtein(s, t)) = min_edit_distance(levenshtein(t, s)).
C17_Symmetry ==
    \A pair \in Mirrored :
        /\ calls[pair[1]].outcome = "returned"
        /\ calls[pair[2]].outcome = "returned"
        /\ calls[pair[1]].distance = calls[pair[2]].distance

\* the distance is symmetric wherever chart.levenshtein returns
SymmetryWhereReturned ==
    \A pair \in Mirrored :
        (pair[1] \in Returned /\ pair[2] \in Returned) =>
            calls[pair[1]].distance = calls[pair[2]].distance

\* the Coordinates of the distance matrix of the pair the object holds
LevRange ==
    (0..Len(lev.self.sequence2)) \X (0..Len(lev.self.sequence1))

\* C18: after any sequence of set_pair calls on one Levenshtein object,
\* min_edit_distance() returns what the most recent set_pair returned, which
\* is the edit distance of the most recently set pair alone: the distance
\* matrix holds the cells of that pair and nothing of an earlier one.
C18_LastPairAlone ==
    lev.n >= 1 =>
        /\ lev.returned.raised = None
        /\ lev.returned.value =
              MinimumCost(lev.self.sequence1, lev.self.sequence2,
                          lev.self.costs)
        /\ Lev_min_edit_distance(lev.self) = lev.returned
        /\ lev.queried # NoResult => lev.queried = lev.returned
        /\ DOMAIN lev.self.distance = LevRange
        /\ \A coords \in LevRange :
              lev.self.distance[coords].num =
                 MinimumCost(Prefix(lev.self.sequence1, coords[2]),
                             Prefix(lev.self.sequence2, coords[1]),
                             lev.self.costs)

\* min_edit_distance() asked after a second set_pair, on a pair with an
\* empty sequence
C18_Witness ==
    /\ lev.n = 2
    /\ lev.self.sequence1 = <<"a", "b">>
    /\ lev.self.sequence2 = <<>>
    /\ lev.self.costs = WeightedCosts
    /\ lev.returned.value = 3
    /\ lev.queried = lev.returned
    /\ Cardinality(DOMAIN lev.self.distance) = 3

\* the body Coordinates of the matrix of call k
BodyOf(k) == (1..Len(calls[k].target)) \X (1..Len(calls[k].source))

\* the cumulative costs of the three candidates for the cell of call k at
\* coords, from the neighbouring cells of the matrix the call built
Candidates(k, coords) ==
    LET cells == calls[k].cells
        src_element == calls[k].source[coords[2]]
        targ_element == calls[k].target[coords[1]]
    IN  [ins |-> cells[Coordinates(coords[1] - 1, coords[2])].cumulative_cost
                 + calls[k].costs.ins[targ_element],
         sub |-> cells[Coordinates(coords[1] - 1, coords[2] - 1)].cumulative_cost
                 + calls[k].costs.sub[<<src_element, targ_element>>],
         del |-> cells[Coordinates(coords[1], coords[2] - 1)].cumulative_cost
                 + calls[k].costs.del[src_element]]

Cheapest(candidates) == Min({candidates.ins, candidates.sub, candidates.del})

\* C19: every body cell (i >= 1, j >= 1) built by compute_min_edit_distance
\* records SUBSTITUTE whenever the substitute candidate's cumulative cost is
\* the minimum of the three, otherwise DELETE whenever the delete candidate's
\* is, and INSERT only when the insert candidate is strictly cheaper than
\* both others.
C19_TieBreak ==
    \A k \in Returned : \A coords \in BodyOf(k) :
        LET candidates == Candidates(k, coords)
            cell == calls[k].cells[coords]
        IN  /\ cell.cumulative_cost = Cheapest(candidates)
            /\ candidates.sub = Cheapest(candidates) => cell.operation = SUB
            /\ (candidates.sub # Cheapest(candidates)
                /\ candidates.del = Cheapest(candidates)) =>
                  cell.operation = DEL
            /\ cell.operation = INS =>
                  /\ candidates.ins < candidates.sub
                  /\ candidates.ins < candidates.del
            /\ cell.operation \in {SUB, DEL, INS}

\* one matrix with a three-way tie recorded as SUBSTITUTE, a tie of deletion
\* and insertion below the substitution recorded as DELETE, and an insertion
\* strictly cheaper than both others
C19_Witness ==
    \E k \in Returned :
        /\ \E coords \in BodyOf(k) :
              LET candidates == Candidates(k, coords)
              IN  /\ candidates.sub = candidates.del
                  /\ candidates.del = candidates.ins
                  /\ calls[k].cells[coords].operation = SUB
        /\ \E coords \in BodyOf(k) :
              LET candidates == Candidates(k, coords)
              IN  /\ candidates.del = candidates.ins
                  /\ candidates.del < candidates.sub
                  /\ calls[k].cells[coords].operation = DEL
        /\ \E coords \in BodyOf(k) :
              LET candidates == Candidates(k, coords)
              IN  /\ candidates.ins < candidates.del
                  /\ candidates.ins < candidates.sub
                  /\ calls[k].cells[coords].operation = INS

\* the positions of the log of the relate call with events of one kind
LogOf(kind) == {n \in 1..Len(xd.log) : xd.log[n].kind = kind}

\* C20: during relate on one Arguments value parse() runs at most once for
\* each Coordinates; once the memo has an entry for a Coordinates (the empty
\* entry of the end position included) every re-entry returns that entry
\* without running parse() again and the entry is never overwritten, so at
\* most (|source|+1)*(|target|+1) subproblems are solved.
C20_MemoWriteOnce ==
    xd.op = "relate" =>
        LET log == xd.log
            parsed == LogOf("parse")
            stored == LogOf("store")
        IN  /\ \A m \in parsed, n \in parsed :
                  log[m].coords = log[n].coords => m = n
            /\ LogOf("overwrite") = {}
            /\ \A n \in stored :
                  /\ \E m \in parsed : m < n /\ log[m].coords = log[n].coords
                  /\ \A m \in parsed \cup stored :
                        m > n => log[m].coords # log[n].coords
            /\ \A n \in LogOf("reuse") :
                  \E m \in stored : m < n /\ log[m].coords = log[n].coords
            /\ DOMAIN xd.memory = {log[n].coords : n \in parsed}
            /\ Cardinality(parsed) <=
                  (Len(xd.source) + 1) * (Len(xd.target) + 1)

\* every Coordinates of a pair of three and three solved once, the empty
\* entry of the end position returned again from the memo
C20_Witness ==
    /\ xd.op = "relate"
    /\ xd.start = Origin
    /\ ~xd.just_one
    /\ Len(xd.source) = 3
    /\ Len(xd.target) = 3
    /\ Cardinality(LogOf("parse")) = 16
    /\ xd.memory[XCoordinates(3, 3)] = <<>>
    /\ \E n \in LogOf("reuse") : xd.log[n].coords = XCoordinates(3, 3)
    /\ Cardinality(LogOf("reuse")) >= 9

\* the positions get_one_backtrace goes through for the analysis of call k
\* on the matrix as it is now
WalkOf(k) ==
    BacktracePositions(calls[k].analysis, matrix,
                       Len(calls[k].source), Len(calls[k].target))

\* C21: get_one_backtrace starts at (|target|, |source|); each iteration
\* follows the operation of the cell it stands on and moves one index or both
\* back by one (SUB both, INS the target index only, DEL the source index
\* only); no index goes below 0, and the loop ends with both indices at 0
\* after at least max(|source|, |target|) and at most |source| + |target|
\* steps.
C21_BacktraceTerminates ==
    \A k \in Returned :
        LET walk == WalkOf(k)
            steps == Len(walk) - 1
            source_len == Len(calls[k].source)
            target_len == Len(calls[k].target)
        IN  /\ walk[1] = <<source_len, target_len>>
            /\ walk[Len(walk)] = <<0, 0>>
            /\ \A n \in 1..Len(walk) : walk[n][1] >= 0 /\ walk[n][2] >= 0
            /\ \A n \in 1..steps :
                  LET operation ==
                          matrix[Coordinates(walk[n][2], walk[n][1])].operation
                  IN  /\ operation \in {SUB, INS, DEL}
                      /\ operation = SUB =>
                            walk[n + 1] = <<walk[n][1] - 1, walk[n][2] - 1>>
                      /\ operation = INS =>
                            walk[n + 1] = <<walk[n][1], walk[n][2] - 1>>
                      /\ operation = DEL =>
                            walk[n + 1] = <<walk[n][1] - 1, walk[n][2]>>
            /\ steps >= Max({source_len, target_len})
            /\ steps <= source_len + target_len
            /\ steps = Len(get_one_backtrace(calls[k].analysis, matrix))
            /\ k = Len(calls) => steps = Len(calls[k].backtrace)

\* a backtrace of four steps between a source of three and a target of two,
\* through an insertion, a deletion and a substitution, and the backtrace of
\* an earlier analysis ending at the origin over the cells written since
C21_Witness ==
    /\ Len(calls) = 2
    /\ Returned = {1, 2}
    /\ Len(calls[2].source) = 3
    /\ Len(calls[2].target) = 2
    /\ Len(WalkOf(2)) = 5
    /\ \A operation \in {SUB, INS, DEL} :
          \E n \in 1..4 :
             matrix[Coordinates(WalkOf(2)[n][2], WalkOf(2)[n][1])].operation
                = operation
    /\ WalkOf(1)[Len(WalkOf(1))] = <<0, 0>>
    /\ get_one_backtrace(calls[1].analysis, matrix) # calls[1].backtrace

\* the pairs and cumulative costs of a path of get_one_backtrace, as
\* AlignmentUnits
BacktraceUnits(backtrace) ==
    [n \in 1..Len(backtrace) |->
        AlignmentUnit(backtrace[n].source, backtrace[n].target,
                      backtrace[n].cell.cumulative_cost)]

\* the object lev has been given the pair of the last call of
\* chart.levenshtein, which returned an analysis under the default costs
BothGiven ==
    /\ lev.n = 1
    /\ calls # <<>>
    /\ calls[Len(calls)].outcome = "returned"
    /\ calls[Len(calls)].costs = LevCosts
    /\ lev.self.sequence1 = calls[Len(calls)].source
    /\ lev.self.sequence2 = calls[Len(calls)].target

\* C22: for a pair of non-empty sequences under the default costs,
\* Levenshtein().set_pair(s, t) returns what chart.min_edit_distance gives
\* for chart.levenshtein(s, t), and alignment_facts() lists the same (source
\* element or None, target element or None) pairs with the same cumulative
\* costs, in the same order, as chart.get_one_backtrace.
C22_EnginesAgree ==
    BothGiven =>
        LET last == calls[Len(calls)]
        IN  /\ lev.returned = [raised |-> None, value |-> last.distance]
            /\ lev.returned.value = min_edit_distance(last.analysis, matrix)
            /\ lev.facts # NoResult =>
                  /\ lev.facts.raised = None
                  /\ lev.facts.value = BacktraceUnits(last.backtrace)
                  /\ lev.facts.value =
                        BacktraceUnits(get_one_backtrace(last.analysis, matrix))

\* both engines have aligned a pair in which several operations tie, in a
\* process whose shared dict held another analysis, and alignment_facts()
\* lists an insertion, a deletion and a substitution at a cost
C22_Witness ==
    /\ BothGiven
    /\ Len(calls) = 2
    /\ lev.facts # NoResult
    /\ lev.facts.value = BacktraceUnits(calls[2].backtrace)
    /\ lev.returned.value = 4
    /\ \E n \in 1..Len(lev.facts.value) :
          lev.facts.value[n].unit1 = None
    /\ \E n \in 1..Len(lev.facts.value) :
          lev.facts.value[n].unit2 = None
    /\ \E n \in 1..Len(lev.facts.value) :
          /\ lev.facts.value[n].unit1 \notin {None, lev.facts.value[n].unit2}
          /\ lev.facts.value[n].unit2 # None

\* every step of the parse holds its own incremental cost plus those of all
\* later steps, and parse_cost gives the sum over the whole parse
SuffixCosts(pars) ==
    /\ pars # <<>>
    /\ \A k \in 1..Len(pars) : pars[k].cumul_cost = ThisCostsFrom(pars, k)
    /\ parse_cost(pars) = ThisCostsFrom(pars, 1)

\* C23: in every path stored in the memo or returned by relate, each step's
\* cumul_cost equals its own this_cost plus the this_cost of every later
\* step, so parse_cost(path) equals the sum of the incremental costs of all
\* steps, and the paths remove_suboptimal_parses kept for one Coordinates all
\* have the same, least, total.
C23_CumulIsSuffixSum ==
    xd.op = "relate" =>
        LET args == arguments(xd.source, xd.target, xd.costs, xd.just_one)
        IN
        /\ \A n \in 1..Len(xd.parses) : SuffixCosts(xd.parses[n])
        /\ \A coords \in DOMAIN xd.memory :
              LET stored == xd.memory[coords]
              IN  /\ \A n \in 1..Len(stored) : SuffixCosts(stored[n])
                  /\ \A n \in 1..Len(stored) :
                        ThisCostsFrom(stored[n], 1)
                           = ThisCostsFrom(stored[1], 1)
                  /\ \A opus \in {SUB, DEL, INS} :
                        LET after == XCoordinates(
                                coords[1] + (IF opus = INS THEN 0 ELSE 1),
                                coords[2] + (IF opus = DEL THEN 0 ELSE 1))
                        IN  /\ after \in DOMAIN xd.memory
                            /\ stored # <<>>
                            => ThisCostsFrom(stored[1], 1) <=
                                  op_cost(args, coords, opus)
                                  + (IF xd.memory[after] = <<>> THEN 0
                                     ELSE ThisCostsFrom(xd.memory[after][1], 1))

\* relate has returned several paths of four steps or more at a total of
\* three or more, whose first step holds the total and whose last step holds
\* its own cost, less than the total, and the memo holds paths for other
\* Coordinates
C23_Witness ==
    /\ xd.op = "relate"
    /\ Len(xd.parses) >= 2
    /\ \A n \in 1..Len(xd.parses) :
          LET pars == xd.parses[n]
          IN  /\ Len(pars) >= 4
              /\ parse_cost(pars) >= 3
              /\ pars[1].this_cost > 0
              /\ pars[1].this_cost < pars[1].cumul_cost
              /\ pars[Len(pars)].cumul_cost = pars[Len(pars)].this_cost
              /\ pars[Len(pars)].cumul_cost < parse_cost(pars)
              /\ pars[2].cumul_cost = ThisCostsFrom(pars, 2)
    /\ \E coords \in DOMAIN xd.memory :
          coords # xd.start /\ Len(xd.memory[coords]) >= 2

====
